---- MODULE Spec2Model ----
\* A model of the counting server's event loop (src/server.cpp, first
\* translation unit, with src/epoll-wrapper.hpp and
\* src/posix-resource-handle.hpp): descriptor ownership, the reactor, the
\* accept path, the line-draining path and the hang-up path.
EXTENDS Integers, Sequences, FiniteSets, TLC

\* ---------------------------------------------------------------- bounds
MaxSends    == 2    \* client writes over the whole run
MaxConnects == 2    \* client connection attempts over the whole run

\* ------------------------------------------------------------- constants
NoFd == -1          \* fd_deleter::pointer's "no descriptor" value

\* Descriptor numbers: standard input, output and error, the listener, the
\* epoll instance, and one per connection that can be open at a time.
MaxFd == 4 + MaxConnects
Fds == 0..MaxFd

EPOLLIN    == "EPOLLIN"
EPOLLRDHUP == "EPOLLRDHUP"
EPOLLHUP   == "EPOLLHUP"

\* The byte stream of a connection is a sequence of tokens: a piece of
\* command text, or the line terminator (which ends in '\n', the byte
\* getline splits on).
CRLF == <<"\r\n">>
Texts == { <<"OUTPUT">>, <<"INCR", "4">>, <<"INCR", "abc">> }
Tokens == Texts \cup {CRLF}

\* What one client write may carry: a complete line, a command text without
\* its terminator, or a terminator alone.
Chunks == { <<t, CRLF>> : t \in Texts \ {<<"INCR", "4">>} }
            \cup { << <<"INCR", "4">> >>, <<CRLF>> }

\* ---------------------------------------------------------------- protocol
\* The command grammar of the wire protocol: what a line means.
Numerals == { "1", "4" }
NumeralValue(a) == IF a = "1" THEN 1 ELSE 4

IsTerminated(line) == line # <<>> /\ line[Len(line)] = CRLF

\* A terminated line holding exactly one command text.
IsCommand(line, verb) ==
    /\ Len(line) = 2
    /\ line[2] = CRLF
    /\ line[1][1] = verb

IsOutput(line) == IsCommand(line, "OUTPUT") /\ Len(line[1]) = 1

IsChange(line) ==
    /\ (IsCommand(line, "INCR") \/ IsCommand(line, "DECR"))
    /\ Len(line[1]) = 2
    /\ line[1][2] \in Numerals

WellFormed(line) == IsOutput(line) \/ IsChange(line)

\* The signed delta of a line: that of a well-formed INCR or DECR, else 0.
Delta(line) ==
    IF ~IsChange(line) THEN 0
    ELSE IF line[1][1] = "INCR" THEN NumeralValue(line[1][2])
         ELSE 0 - NumeralValue(line[1][2])

RECURSIVE DeltaSum(_)
DeltaSum(lines) ==
    IF lines = <<>> THEN 0 ELSE Delta(Head(lines)) + DeltaSum(Tail(lines))

\* The decimal text of an integer, digit by digit.
RECURSIVE Digits(_)
Digits(n) ==
    IF n < 10 THEN << n >> ELSE Append(Digits(n \div 10), n % 10)

Decimal(n) == IF n < 0 THEN << "-" >> \o Digits(0 - n) ELSE Digits(n)

VARIABLES
    pc,             \* "start" | "wait" (top of the loop) | "terminated" |
                    \* "exited" (main has returned)
    fatal,          \* what ended the process ("" while it runs)
    kernel,         \* the process's descriptor table and the epoll interest list
    listen_socket,  \* main's listen_socket handle (its descriptor, or NoFd)
    poller,         \* epoll::handle (its descriptor, or NoFd)
    connections,    \* main's vector of handles, as the descriptors they hold
    new_event,      \* the epoll_event wait() returned last
    sock,           \* per descriptor: the peer's state and the unread bytes
    backlog,        \* connections waiting in the listen queue
    retained,       \* per descriptor: the bytes read from the connection that
                    \* the program still holds at the top of the loop
    written,        \* every write to a connection socket so far: [fd, payload]
    last,           \* history: what the last loop iteration did
    applied,        \* history: the sum of the deltas of the well-formed
                    \* INCR/DECR lines handed to parse so far
    nsent,          \* client writes so far
    nconn           \* client connection attempts so far

vars == << pc, fatal, kernel, listen_socket, poller, connections, new_event,
           sock, backlog, retained, written, last, applied, nsent, nconn >>

\* ---------------------------------------------------------------- kernel
\* kernel = [open: the open descriptors, interest: descriptor -> event set
\* registered with the epoll instance, bad: a close() was issued on
\* something that is not an open descriptor, warned: the deleter printed its
\* close-failure warning during the last loop iteration].

LowestFree(open) == CHOOSE f \in Fds \ open : \A g \in Fds \ open : f <= g

NoSock == [peer |-> "none", rx |-> <<>>]

\* Mutant: close releases the descriptor but its epoll registration stays.
Close_KeepRegistered(k, fd) ==
    IF fd \in k.open
    THEN [k EXCEPT !.open = @ \ {fd}]
    ELSE [k EXCEPT !.bad = TRUE]

\* close(2): releases the descriptor and, with it, its epoll registration.
\* On Linux the descriptor is released even when close reports an error.
Close(k, fd) ==
    IF fd \in k.open
    THEN [k EXCEPT !.open = @ \ {fd}, !.interest = [@ EXCEPT ![fd] = {}]]
    ELSE [k EXCEPT !.bad = TRUE]

\* --------------------------------------------------------- resource_handle
\* fd_deleter::operator(): close, and a warning when close fails.
Deleter(k, p, fails) ==
    [Close(k, p) EXCEPT !.warned = @ \/ fails]

\* unique_ptr's destructor: the deleter runs unless the handle is null.
HandleDestroy(k, h, fails) ==
    IF h # NoFd THEN Deleter(k, h, fails) ELSE k

\* release(): the handle gives up its descriptor and holds the null pointer.
HandleRelease(h) == NoFd

\* Mutant: the move copies the descriptor and leaves the source as it was.
MovedFrom_Copy(h) == h

\* What a handle holds after it was moved from.
MovedFrom(h) == NoFd

\* Mutant: the handle tests its descriptor against 0 instead of the sentinel.
HandleBool_NonZero(h) == h # 0

\* explicit operator bool of the handle.
HandleBool(h) == h # NoFd

\* ---------------------------------------------------------------- erase_if
\* std::remove_if over the vector from the first match on: every kept
\* element is move-assigned to the next free slot (the slot's old descriptor
\* is closed by the assignment when the slot is not null).
RECURSIVE RemoveLoop(_, _, _, _, _, _)
RemoveLoop(k, vec, first, i, fd, fails) ==
    IF i > Len(vec) THEN [k |-> k, vec |-> vec, first |-> first]
    ELSE IF vec[i] # fd
         THEN RemoveLoop(HandleDestroy(k, vec[first], fails),
                         [vec EXCEPT ![first] = vec[i], ![i] = MovedFrom(vec[i])],
                         first + 1, i + 1, fd, fails)
         ELSE RemoveLoop(k, vec, first, i + 1, fd, fails)

\* Mutant: erase closes the descriptor of every element of the vector.
DestroyTail_All(k, vec, from, fails) ==
    [k EXCEPT !.open = @ \ { vec[i] : i \in DOMAIN vec }]

\* vector::erase(first, end): the tail's handles are destroyed.
RECURSIVE DestroyTail(_, _, _, _)
DestroyTail(k, vec, from, fails) ==
    IF from > Len(vec) THEN k
    ELSE DestroyTail(HandleDestroy(k, vec[from], fails), vec, from + 1, fails)

\* Mutant: the matching descriptor is closed but its entry stays in the vector.
EraseIf_CloseOnly(k, vec, fd, fails) ==
    IF \E i \in DOMAIN vec : vec[i] = fd
    THEN [k |-> Deleter(k, fd, fails), vec |-> vec]
    ELSE [k |-> k, vec |-> vec]

\* Mutant: the elements are shifted by remove_if but the tail is never erased.
EraseIf_NoErase(k, vec, fd, fails) ==
    LET hits == { i \in 1..Len(vec) : vec[i] = fd } IN
    IF hits = {} THEN [k |-> k, vec |-> vec]
    ELSE LET f0 == CHOOSE i \in hits : \A j \in hits : i <= j
             r  == RemoveLoop(k, vec, f0, f0 + 1, fd, fails)
         IN  [k |-> r.k, vec |-> r.vec]

\* std::erase_if(connections, handle.fd == fd): [k: the kernel afterwards,
\* vec: the vector afterwards].
EraseIf(k, vec, fd, fails) ==
    LET hits == { i \in 1..Len(vec) : vec[i] = fd } IN
    IF hits = {} THEN [k |-> k, vec |-> vec]
    ELSE LET f0 == CHOOSE i \in hits : \A j \in hits : i <= j
             r  == RemoveLoop(k, vec, f0, f0 + 1, fd, fails)
         IN  [k   |-> DestroyTail(r.k, r.vec, r.first, fails),
              vec |-> SubSeq(r.vec, 1, r.first - 1)]

\* ----------------------------------------------------------------- getline
\* The complete lines of a byte stream and its unterminated tail.
RECURSIVE SplitFrom(_, _, _)
SplitFrom(s, cur, acc) ==
    IF s = <<>> THEN [lines |-> acc, tail |-> cur]
    ELSE IF Head(s) = CRLF
         THEN SplitFrom(Tail(s), <<>>, Append(acc, Append(cur, CRLF)))
         ELSE SplitFrom(Tail(s), Append(cur, Head(s)), acc)

SplitLines(s) == SplitFrom(s, <<>>, <<>>)

\* The lines the loop `while (getline(...) > 0) parse(buffer)` hands to
\* parse on a fresh stream over a non-blocking socket holding rx: every
\* terminated line; then the unterminated tail as a line of its own when the
\* stream ends there (eof) or when the C library returns the bytes it had
\* gathered as the read fails with EAGAIN (partial).
GetlineAll(rx, eof, partial) ==
    LET sp == SplitLines(rx) IN
    IF sp.tail # <<>> /\ (eof \/ partial)
    THEN Append(sp.lines, sp.tail)
    ELSE sp.lines

\* What the program holds of the bytes rx it read from a connection once the
\* drain loop has handed `lines` to parse: free(buffer) releases the line
\* buffer, and the stream `in` is dropped when the block ends.
Kept(rx, lines) == <<>>

\* Mutant: parse answers a line it does not understand with an error text.
ParseWrites_ErrorReply(fd, line, conns) ==
    IF WellFormed(line) THEN <<>>
    ELSE << [fd |-> fd, payload |-> << "E", "R", "R" >>] >>

\* parse(line): prints the line to the error stream. The writes it makes to
\* connection sockets: none.
ParseWrites(fd, line, conns) == <<>>

RECURSIVE ParseAll(_, _, _)
ParseAll(fd, lines, conns) ==
    IF lines = <<>> THEN <<>>
    ELSE ParseWrites(fd, Head(lines), conns) \o ParseAll(fd, Tail(lines), conns)

\* ------------------------------------------------------------------ reactor
\* The event epoll::wait returns when epoll_wait fails with EINTR.
InterruptedEvent == [fd |-> 0, events |-> {}]

\* The readiness a TCP socket may show (level-triggered): readable while
\* bytes are unread or the peer has closed; a closed peer shows as
\* EPOLLRDHUP (its FIN arrived), with EPOLLHUP too when the connection is
\* shut down in both directions (reset).
Readiness(f) ==
    IF sock[f].peer = "closed"
    THEN { {EPOLLIN, EPOLLRDHUP}, {EPOLLIN, EPOLLRDHUP, EPOLLHUP} }
    ELSE IF sock[f].rx # <<>> THEN { {EPOLLIN} } ELSE {}

\* The events epoll_wait may report: one per registered, ready descriptor.
\* EPOLLHUP is reported whether asked for or not.
ReadyEvents ==
    { [fd |-> f, events |-> {EPOLLIN}] :
        f \in { g \in kernel.open : g = listen_socket /\ EPOLLIN \in kernel.interest[g]
                                    /\ backlog > 0 } }
    \cup
    { e \in [fd : kernel.open \ {listen_socket},
             events : SUBSET {EPOLLIN, EPOLLRDHUP, EPOLLHUP}] :
        /\ kernel.interest[e.fd] # {}
        /\ \E r \in Readiness(e.fd) :
             /\ e.events = r \cap (kernel.interest[e.fd] \cup {EPOLLHUP})
             /\ e.events # {} }

NoLast == [kind |-> "none", fd |-> NoFd, interrupted |-> FALSE, lines |-> <<>>,
           fdopenFailed |-> FALSE, hangup |-> FALSE, read |-> <<>>, eof |-> FALSE,
           held |-> <<>>, table |-> <<>>, reuse |-> FALSE]

\* How the process ends, given what ended it. throw_system_error throws a
\* std::system_error; main has no handler (and epoll's constructor is
\* noexcept), so std::terminate runs and abort() raises SIGABRT: the process
\* does not exit with a status of its own, whichever call failed. A
\* termination signal ends it by that signal.
ProcessEnd(why) ==
    IF why = "signal"
    THEN [exited |-> FALSE, status |-> 0, signal |-> "SIGTERM"]
    ELSE [exited |-> FALSE, status |-> 0, signal |-> "SIGABRT"]

\* The process has been terminated (std::terminate after an uncaught
\* exception): its memory is gone, the kernel has dropped its descriptors and
\* reset its connections. The model keeps what ended it.
Terminated(why, what) ==
    /\ pc' = "terminated"
    /\ fatal' = why
    /\ last' = what
    /\ kernel' = [open |-> {}, interest |-> [f \in Fds |-> {}],
                  bad |-> kernel.bad, warned |-> FALSE]
    /\ listen_socket' = NoFd
    /\ poller' = NoFd
    /\ connections' = <<>>
    /\ new_event' = InterruptedEvent
    /\ sock' = [f \in Fds |-> NoSock]
    /\ backlog' = 0
    /\ retained' = [f \in Fds |-> <<>>]
    /\ written' = <<>>
    /\ applied' = 0
    /\ nsent' = 0
    /\ nconn' = 0

\* -------------------------------------------------------------------- Init
Init ==
    /\ pc = "start"
    /\ fatal = ""
    /\ \E stdin \in SUBSET {0} :     \* standard input may be closed at start
         kernel = [open |-> stdin \cup {1, 2}, interest |-> [f \in Fds |-> {}],
                   bad |-> FALSE, warned |-> FALSE]
    /\ listen_socket = NoFd
    /\ poller = NoFd
    /\ connections = <<>>
    /\ new_event = InterruptedEvent
    /\ sock = [f \in Fds |-> NoSock]
    /\ backlog = 0
    /\ retained = [f \in Fds |-> <<>>]
    /\ written = <<>>
    /\ applied = 0
    /\ last = NoLast
    /\ nsent = 0
    /\ nconn = 0

\* ----------------------------------------------------------------- startup
StartupStages == <<"socket", "setsockopt", "bind", "listen", "epoll_create", "epoll_ctl">>

\* main up to the loop: listen_on_dual_tcp_socket, epoll(), poller.add.
\* A failing stage throws; nothing catches, so the process is terminated.
Startup ==
    /\ pc = "start"
    /\ LET lfd == LowestFree(kernel.open)
           efd == LowestFree(kernel.open \cup {lfd})
       IN  /\ listen_socket' = lfd
           /\ poller' = efd
           /\ kernel' = [kernel EXCEPT !.open = @ \cup {lfd, efd},
                                       !.interest = [@ EXCEPT ![lfd] = {EPOLLIN}]]
    /\ pc' = "wait"
    /\ last' = [NoLast EXCEPT !.kind = "startup"]
    /\ UNCHANGED << fatal, connections, new_event, sock, backlog, retained,
                    written, applied, nsent, nconn >>

StartupFails ==
    /\ pc = "start"
    /\ \E i \in 1..Len(StartupStages) :
         Terminated(StartupStages[i], [NoLast EXCEPT !.kind = "startup"])

\* -------------------------------------------------------------- environment
\* A client connects: the connection waits in the listen queue.
ClientConnect ==
    /\ pc = "wait"
    /\ nconn < MaxConnects
    /\ nconn' = nconn + 1
    /\ backlog' = backlog + 1
    /\ UNCHANGED << pc, fatal, kernel, listen_socket, poller, connections, new_event,
                    sock, retained, written, last, applied, nsent >>

\* A client writes a chunk of bytes to its connection.
ClientSend ==
    /\ pc = "wait"
    /\ nsent < MaxSends
    /\ \E f \in Fds, c \in Chunks :
         /\ sock[f].peer = "open"
         /\ sock' = [sock EXCEPT ![f].rx = @ \o c]
    /\ nsent' = nsent + 1
    /\ UNCHANGED << pc, fatal, kernel, listen_socket, poller, connections, new_event,
                    backlog, retained, written, last, applied, nconn >>

\* A client closes its connection, or the connection is reset.
ClientClose ==
    /\ pc = "wait"
    /\ \E f \in Fds :
         /\ sock[f].peer = "open"
         /\ sock' = [sock EXCEPT ![f].peer = "closed"]
    /\ UNCHANGED << pc, fatal, kernel, listen_socket, poller, connections, new_event,
                    backlog, retained, written, last, applied, nsent, nconn >>

\* ------------------------------------------------------------ the main loop
\* The sockets of the descriptors still open under kernel k.
SockAfter(k, s) == [f \in Fds |-> IF f \in k.open THEN s[f] ELSE NoSock]

\* accept_connection, given what accept4 returned: the handle it returns.
\* On failure the handle is released and a null handle is returned.
AcceptConnection(raw) ==
    IF raw < 0 THEN HandleRelease(raw) ELSE raw

\* The listener branch of the loop, for the event ev. accept4 succeeds only
\* on a pending connection with a descriptor free; it may fail in any state
\* (EAGAIN, EMFILE, ECONNABORTED, ...), and a failure may or may not take
\* the pending connection off the queue. epoll_ctl may fail in any state,
\* and fails on what is no open descriptor; poller.add then throws, and
\* nothing catches.
AcceptBranch(ev, intr) ==
    \E accepted \in BOOLEAN, addOk \in BOOLEAN, drop \in 0..1 :
      /\ accepted => (backlog > 0 /\ Fds \ kernel.open # {} /\ drop = 1)
      /\ ~accepted => (drop <= backlog /\ addOk)
      /\ LET raw == IF accepted THEN LowestFree(kernel.open) ELSE NoFd
             k1  == [kernel EXCEPT !.warned = FALSE,
                                   !.open = @ \cup (IF accepted THEN {raw} ELSE {})]
             new_connection == AcceptConnection(raw)
             what == [NoLast EXCEPT !.kind = IF accepted THEN "accept_ok"
                                             ELSE "accept_fail",
                                    !.fd = raw, !.interrupted = intr,
                                    !.table = connections,
                                    \* accept4 handed out the number the
                                    \* iteration before had closed
                                    !.reuse = /\ accepted
                                              /\ last.kind = "conn"
                                              /\ last.hangup
                                              /\ last.fd = raw]
         IN  IF HandleBool(new_connection)
             THEN IF addOk /\ new_connection \in k1.open
                  THEN \* poller.add, push_back(std::move(new_connection)), then
                       \* new_connection goes out of scope
                       /\ kernel' = HandleDestroy(
                              [k1 EXCEPT !.interest =
                                  [@ EXCEPT ![raw] = {EPOLLIN, EPOLLRDHUP}]],
                              MovedFrom(new_connection), FALSE)
                       /\ connections' = Append(connections, new_connection)
                       /\ sock' = [sock EXCEPT ![raw] = [peer |-> "open", rx |-> <<>>]]
                       /\ backlog' = backlog - drop
                       /\ pc' = "wait"
                       /\ new_event' = ev
                       /\ last' = what
                       /\ UNCHANGED << fatal, listen_socket, poller, retained,
                                       written, applied, nsent, nconn >>
                  ELSE Terminated("epoll_ctl",
                                  [what EXCEPT !.kind = IF accepted THEN "add_fail"
                                                        ELSE "accept_fail"])
             ELSE /\ kernel' = HandleDestroy(k1, new_connection, FALSE)
                  /\ backlog' = backlog - drop
                  /\ pc' = "wait"
                  /\ new_event' = ev
                  /\ last' = what
                  /\ UNCHANGED << fatal, listen_socket, poller, connections, sock,
                                  retained, written, applied, nsent, nconn >>

\* The connection branch of the loop, for the event ev.
ConnBranch(ev, intr) ==
    \E fdopenOk \in BOOLEAN, partial \in BOOLEAN, closeFails \in BOOLEAN :
      LET fd     == ev.fd
          k0     == [kernel EXCEPT !.warned = FALSE]
          isIn   == EPOLLIN \in ev.events
          isHup  == ev.events \cap {EPOLLHUP, EPOLLRDHUP} # {}
          reads  == isIn /\ fdopenOk
          \* read() ends the stream with 0 after a FIN, with an error after a reset
          eof    == sock[fd].peer = "closed" /\ EPOLLHUP \notin ev.events
          lines  == IF reads
                    THEN GetlineAll(sock[fd].rx, eof, partial)
                    ELSE <<>>
          hangs  == isHup /\ (isIn => fdopenOk)
          er     == IF hangs THEN EraseIf(k0, connections, fd, closeFails)
                    ELSE [k |-> k0, vec |-> connections]
      IN  /\ (~isIn => fdopenOk)
          /\ (~reads \/ SplitLines(sock[fd].rx).tail = <<>> \/ eof
                => partial)
          /\ (~hangs => ~closeFails)
          /\ written' = written \o ParseAll(fd, lines, connections)
          /\ applied' = applied + DeltaSum(lines)
          /\ retained' = IF reads
                         THEN [retained EXCEPT ![fd] = Kept(sock[fd].rx, lines)]
                         ELSE retained
          /\ kernel' = er.k
          /\ connections' = er.vec
          /\ sock' = SockAfter(er.k,
                        IF reads THEN [sock EXCEPT ![fd].rx = <<>>] ELSE sock)
          /\ last' = [kind |-> "conn", fd |-> fd, interrupted |-> intr,
                      lines |-> lines, fdopenFailed |-> isIn /\ ~fdopenOk,
                      hangup |-> hangs, read |-> IF reads THEN sock[fd].rx ELSE <<>>,
                      eof |-> reads /\ sock[fd].peer = "closed",
                      held |-> IF fd \in Fds THEN retained[fd] ELSE <<>>,
                      table |-> connections, reuse |-> FALSE]
          /\ pc' = "wait"
          /\ new_event' = ev
          /\ UNCHANGED << fatal, listen_socket, poller, backlog, nsent, nconn >>

\* One pass of the while(true) body for the event wait() returned.
Body(ev, intr) ==
    IF ev.fd = listen_socket THEN AcceptBranch(ev, intr) ELSE ConnBranch(ev, intr)

\* wait() returns a readiness event and the loop handles it.
LoopReady ==
    /\ pc = "wait"
    /\ \E ev \in ReadyEvents : Body(ev, FALSE)

\* epoll_wait fails with EINTR: wait() returns an empty event and the loop
\* handles that.
LoopInterrupted ==
    /\ pc = "wait"
    /\ Body(InterruptedEvent, TRUE)

\* epoll_wait fails otherwise: wait() throws; nothing catches.
WaitFails ==
    /\ pc = "wait"
    /\ Terminated("epoll_wait", [NoLast EXCEPT !.kind = "wait_fail"])

\* A termination signal arrives. The program installs no handler, so the
\* signal's default action ends the process where it stands: the loop is
\* not left and no handle goes out of scope.
SignalKills ==
    /\ pc = "wait"
    /\ Terminated("signal", [NoLast EXCEPT !.kind = "killed"])

Next ==
    \/ Startup
    \/ StartupFails
    \/ ClientConnect
    \/ ClientSend
    \/ ClientClose
    \/ LoopReady
    \/ LoopInterrupted
    \/ WaitFails
    \/ SignalKills

Spec == Init /\ [][Next]_vars

\* ------------------------------------------------- erase_if on its own
\* The statement std::erase_if(connections, ...) of the hang-up block,
\* applied to any table the loop can hold and any descriptor value, present
\* in the table or not, over and over.

\* The tables over the descriptors in S: each descriptor at most once.
Tables(S) ==
    { vec \in UNION { [1..n -> S] : n \in 0..MaxConnects } :
        \A i, j \in DOMAIN vec : i # j => vec[i] # vec[j] }

EraseInit ==
    /\ pc = "erase"
    /\ fatal = ""
    /\ \E stdin \in SUBSET {0} :
         LET std == stdin \cup {1, 2}
             lfd == LowestFree(std)
             efd == LowestFree(std \cup {lfd})
         IN  \E vec \in Tables(Fds \ (std \cup {lfd, efd})) :
               LET held == { vec[i] : i \in DOMAIN vec } IN
               /\ listen_socket = lfd
               /\ poller = efd
               /\ connections = vec
               /\ kernel = [open |-> std \cup {lfd, efd} \cup held,
                            interest |-> [f \in Fds |->
                                IF f = lfd THEN {EPOLLIN}
                                ELSE IF f \in held THEN {EPOLLIN, EPOLLRDHUP}
                                ELSE {}],
                            bad |-> FALSE, warned |-> FALSE]
               /\ sock = [f \in Fds |-> IF f \in held
                                         THEN [peer |-> "open", rx |-> <<>>]
                                         ELSE NoSock]
    /\ new_event = InterruptedEvent
    /\ backlog = 0
    /\ retained = [f \in Fds |-> <<>>]
    /\ written = <<>>
    /\ applied = 0
    /\ last = NoLast
    /\ nsent = 0
    /\ nconn = 0

\* One execution of the erase_if statement for the descriptor value fd.
\* last records whether fd was in the table, and whether this is the second
\* removal in a row of a descriptor that the first one found there.
EraseStep ==
    /\ pc = "erase"
    /\ \E fd \in Fds \cup {NoFd}, closeFails \in BOOLEAN :
         LET er == EraseIf(kernel, connections, fd, closeFails)
             present == \E i \in DOMAIN connections : connections[i] = fd
         IN  /\ kernel' = er.k
             /\ connections' = er.vec
             /\ sock' = SockAfter(er.k, sock)
             /\ last' = [kind |-> "erase", fd |-> fd, table |-> connections,
                         present |-> present,
                         again |-> /\ last.kind = "erase"
                                   /\ last.fd = fd
                                   /\ last.present]
    /\ UNCHANGED << pc, fatal, listen_socket, poller, new_event, backlog,
                    retained, written, applied, nsent, nconn >>

EraseNext == EraseStep

EraseSpec == EraseInit /\ [][EraseNext]_vars

\* ------------------------------------------- the drain loop, call by call
\* The readable block of the connection branch with each getline call a step
\* of its own, so that bytes may arrive and the peer may close while the
\* loop runs. One connection has been accepted.

\* Mutant: accept4 is called without SOCK_NONBLOCK.
AcceptFlags_Blocking == {}

\* The flags accept_connection passes to accept4.
AcceptFlags == {"SOCK_NONBLOCK"}

DrainInit ==
    /\ pc = "wait"
    /\ fatal = ""
    /\ \E stdin \in SUBSET {0} :
         LET std == stdin \cup {1, 2}
             lfd == LowestFree(std)
             efd == LowestFree(std \cup {lfd})
             cfd == LowestFree(std \cup {lfd, efd})
         IN  /\ listen_socket = lfd
             /\ poller = efd
             /\ connections = << cfd >>
             /\ kernel = [open |-> std \cup {lfd, efd, cfd},
                          interest |-> [f \in Fds |->
                              IF f = lfd THEN {EPOLLIN}
                              ELSE IF f = cfd THEN {EPOLLIN, EPOLLRDHUP}
                              ELSE {}],
                          bad |-> FALSE, warned |-> FALSE]
             /\ sock = [f \in Fds |-> IF f = cfd
                                       THEN [peer |-> "open", rx |-> <<>>]
                                       ELSE NoSock]
    /\ new_event = InterruptedEvent
    /\ backlog = 0
    /\ retained = [f \in Fds |-> <<>>]
    /\ written = <<>>
    /\ applied = 0
    /\ last = NoLast
    /\ nsent = 0
    /\ nconn = 1

\* The peer writes a chunk, at any moment.
PeerSend ==
    /\ pc \in {"wait", "drain"}
    /\ nsent < MaxSends
    /\ \E f \in Fds, c \in Chunks :
         /\ sock[f].peer = "open"
         /\ sock' = [sock EXCEPT ![f].rx = @ \o c]
    /\ nsent' = nsent + 1
    /\ UNCHANGED << pc, fatal, kernel, listen_socket, poller, connections, new_event,
                    backlog, retained, written, last, applied, nconn >>

\* The peer closes or resets, at any moment.
PeerClose ==
    /\ pc \in {"wait", "drain"}
    /\ \E f \in Fds :
         /\ sock[f].peer = "open"
         /\ sock' = [sock EXCEPT ![f].peer = "closed"]
    /\ UNCHANGED << pc, fatal, kernel, listen_socket, poller, connections, new_event,
                    backlog, retained, written, last, applied, nsent, nconn >>

\* wait() returns a readable event of the connection and fdopen is called:
\* on success the drain loop is entered, on failure `continue` goes back to
\* the wait.
DrainBegin ==
    /\ pc = "wait"
    /\ \E ev \in ReadyEvents, fdopenOk \in BOOLEAN :
         /\ ev.fd # listen_socket
         /\ EPOLLIN \in ev.events
         /\ new_event' = ev
         /\ pc' = IF fdopenOk THEN "drain" ELSE "wait"
         /\ last' = [kind |-> "drain", fd |-> ev.fd, lines |-> <<>>,
                     fdopenFailed |-> ~fdopenOk, done |-> ~fdopenOk]
    /\ UNCHANGED << fatal, kernel, listen_socket, poller, connections, sock,
                    backlog, retained, written, applied, nsent, nconn >>

\* One getline call of the drain loop and what follows it. With a complete
\* line among the unread bytes it returns the first one, which is handed to
\* parse. Without one the stream reads on: at the end of the stream, or on
\* the EAGAIN of a non-blocking socket, getline returns what is left as a
\* line (partial) or returns -1, which ends the loop; the hang-up block
\* follows and the iteration is over. On a blocking socket whose peer is
\* there the read, and with it getline, does not return until bytes come.
DrainGetline ==
    /\ pc = "drain"
    /\ LET fd     == new_event.fd
           sp     == SplitLines(sock[fd].rx)
           closed == sock[fd].peer = "closed"
           isHup  == new_event.events \cap {EPOLLHUP, EPOLLRDHUP} # {}
       IN  /\ (sp.lines # <<>> \/ closed \/ "SOCK_NONBLOCK" \in AcceptFlags)
           /\ \E partial \in BOOLEAN :
                LET line == IF sp.lines # <<>> THEN Head(sp.lines)
                            ELSE IF partial THEN sp.tail ELSE <<>>
                    er   == IF line = <<>> /\ isHup
                            THEN EraseIf(kernel, connections, fd, FALSE)
                            ELSE [k |-> kernel, vec |-> connections]
                IN  /\ (sp.lines # <<>> => partial)
                    /\ written' = written \o ParseAll(fd, IF line = <<>> THEN <<>>
                                                          ELSE << line >>, connections)
                    /\ applied' = applied + Delta(line)
                    /\ kernel' = er.k
                    /\ connections' = er.vec
                    /\ sock' = SockAfter(er.k,
                                  [sock EXCEPT ![fd].rx =
                                      IF sp.lines # <<>>
                                      THEN SubSeq(@, Len(line) + 1, Len(@))
                                      ELSE <<>>])
                    /\ last' = [last EXCEPT
                                  !.lines = IF line = <<>> THEN @ ELSE Append(@, line),
                                  !.done = line = <<>>]
                    /\ pc' = IF line = <<>> THEN "wait" ELSE "drain"
    /\ UNCHANGED << fatal, listen_socket, poller, new_event, backlog, retained,
                    nsent, nconn >>

DrainNext ==
    \/ PeerSend
    \/ PeerClose
    \/ DrainBegin
    \/ DrainGetline

\* The process keeps running: a getline call that can return does return.
DrainSpec == DrainInit /\ [][DrainNext]_vars /\ WF_vars(DrainGetline)

\* ------------------------------------------------------------------- claims
Range(seq) == { seq[i] : i \in DOMAIN seq }

RECURSIVE Flatten(_)
Flatten(lines) ==
    IF lines = <<>> THEN <<>> ELSE Head(lines) \o Flatten(Tail(lines))

\* The running sum of the deltas before the i-th line of the last iteration
\* was handed to parse.
SumBefore(i) == applied - DeltaSum(SubSeq(last.lines, i, Len(last.lines)))

Wrote(fd, payload) ==
    \E j \in DOMAIN written : written[j] = [fd |-> fd, payload |-> payload]

\* C1: every OUTPUT line handed to the dispatcher is answered, on the
\* connection it came from, with the decimal text of the sum of the signed
\* deltas of the INCR/DECR lines processed before it.
C1_OutputRepliesRunningSum ==
    last.kind = "conn" =>
        \A i \in DOMAIN last.lines :
            IsOutput(last.lines[i]) => Wrote(last.fd, Decimal(SumBefore(i)))

\* C2: when an INCR or DECR line is processed, the new counter value is sent
\* to every connection that is in the connection table at that moment, the
\* issuer included.
C2_ChangeIsBroadcast ==
    last.kind = "conn" =>
        \A i \in DOMAIN last.lines :
            IsChange(last.lines[i]) =>
                \A c \in Range(last.table) :
                    Wrote(c, Decimal(SumBefore(i) + Delta(last.lines[i])))

\* C3: on a connection whose peer is still there, the drain loop hands over
\* terminated lines only, and the bytes it read are all either handed over
\* or retained for the next readiness event (with what was retained before
\* in front of them).
C3_SplitLineFramedOnce ==
    (last.kind = "conn" /\ last.read # <<>> /\ ~last.eof) =>
        /\ \A i \in DOMAIN last.lines : IsTerminated(last.lines[i])
        /\ Flatten(last.lines) \o retained[last.fd] = last.held \o last.read

C5_SignalExitsLoop ==
    last.kind = "killed" => pc = "exited"

\* C6: close is only ever issued on an open descriptor (never twice, never
\* on the sentinel or through a moved-from handle); at the top of the loop
\* the open descriptors beyond the standard ones are exactly the listener's,
\* the reactor's and those held, once each, by the connection table; the
\* descriptor of an erased handle is closed; and a close that fails leaves
\* the loop running.
C6_ClosedExactlyOnce ==
    /\ ~kernel.bad
    /\ pc = "wait" =>
         /\ kernel.open \ {0, 1, 2} =
                ({listen_socket, poller} \cup Range(connections)) \ {0, 1, 2}
         /\ Range(connections) \subseteq kernel.open
         /\ Cardinality(Range(connections)) = Len(connections)
    /\ (last.kind = "conn" /\ last.hangup) => last.fd \notin kernel.open
    /\ kernel.warned => pc = "wait"

\* C6 witness: the first of several handles was erased (the others were
\* moved down), and the close of its descriptor failed.
C6_Witness ==
    /\ last.kind = "conn"
    /\ last.hangup
    /\ Len(last.table) >= 2
    /\ last.table[1] = last.fd
    /\ kernel.warned
    /\ connections # <<>>

\* The kinds of loop iteration that handle a readiness event.
HandlingKinds == {"accept_ok", "accept_fail", "add_fail", "conn"}

\* C7: the process is never terminated by what happens while a readiness
\* event is handled.
C7_HandlingNeverFatal ==
    pc = "terminated" => last.kind \notin HandlingKinds

\* C8: the event wait() returns when it was interrupted carries no valid
\* descriptor value: not 0, not the listener's, not a connection's.
C8_InterruptedEventIsNoDescriptor ==
    last.interrupted =>
        /\ new_event.fd \notin Fds
        /\ new_event.fd # listen_socket
        /\ new_event.fd \notin Range(connections)

\* C9: an iteration whose accept failed adds nothing to the connection
\* table, registers nothing, closes nothing and returns to the wait.
C9_AcceptFailureIsNoop ==
    [][ last'.kind = "accept_fail" =>
          /\ connections' = connections
          /\ kernel'.interest = kernel.interest
          /\ kernel'.open = kernel.open
          /\ kernel'.bad = kernel.bad
          /\ pc' = "wait" ]_vars

\* C9 witness: an accept failed with a connection pending and another one
\* already in the table.
C9_Witness ==
    /\ last.kind = "accept_fail"
    /\ backlog > 0
    /\ connections # <<>>
    /\ pc = "wait"

\* C10: an iteration that hands only lines that are no well-formed command
\* to the dispatcher writes to no connection and, unless the same event
\* carried a hang-up, leaves the connection table and the descriptors as
\* they were.
C10_MalformedChangesNothing ==
    [][ ( /\ last'.kind = "conn"
          /\ last'.lines # <<>>
          /\ \A i \in DOMAIN last'.lines : ~WellFormed(last'.lines[i]) ) =>
          /\ written' = written
          /\ applied' = applied
          /\ ~last'.hangup => ( /\ connections' = connections
                                /\ kernel'.open = kernel.open
                                /\ pc' = "wait" ) ]_vars

\* C10 witness: a line with a non-numeric argument was handed to the
\* dispatcher and its connection is still in the table.
C10_Witness ==
    /\ last.kind = "conn"
    /\ \E i \in DOMAIN last.lines : last.lines[i] = << <<"INCR", "abc">>, CRLF >>
    /\ \A i \in DOMAIN last.lines : ~WellFormed(last.lines[i])
    /\ ~last.hangup
    /\ last.fd \in Range(connections)

\* C11: when a startup stage fails, the process exits at once with a
\* non-zero status that no other startup stage's failure gives, and the
\* loop is not entered.
C11_StartupFailureDistinctStatus ==
    (pc = "terminated" /\ last.kind = "startup") =>
        /\ ProcessEnd(fatal).exited
        /\ ProcessEnd(fatal).status # 0
        /\ \A i \in DOMAIN StartupStages :
              StartupStages[i] # fatal =>
                  ProcessEnd(StartupStages[i]) # ProcessEnd(fatal)

\* C12: at the top of the loop no two entries of the connection table hold
\* the same descriptor, and no entry holds the sentinel or the listener's
\* descriptor, also after accept4 handed out a number closed before.
C12_TableDescriptorsDistinct ==
    pc = "wait" =>
        /\ \A i, j \in DOMAIN connections :
              i # j => connections[i] # connections[j]
        /\ NoFd \notin Range(connections)
        /\ listen_socket \notin Range(connections)

\* C12 witness: the connection just accepted got the descriptor number that
\* the iteration before had closed, and it is in the table.
C12_Witness ==
    /\ pc = "wait"
    /\ last.kind = "accept_ok"
    /\ last.reuse
    /\ last.fd \in Range(connections)

\* C13: removing a descriptor that is not in the connection table leaves
\* the table as it was and closes nothing; removing one that is in it
\* removes that entry alone, keeps the other entries in their order and
\* their descriptors open, and issues no close on anything else.
C13_RemoveIsIdempotent ==
    [][ last'.kind = "erase" =>
          IF last'.present
          THEN /\ connections' = SelectSeq(connections, LAMBDA h : h # last'.fd)
               /\ Len(connections') = Len(connections) - 1
               /\ kernel'.open = kernel.open \ {last'.fd}
               /\ Range(connections') \subseteq kernel'.open
               /\ ~kernel'.bad
          ELSE /\ connections' = connections
               /\ kernel' = kernel ]_vars

\* C13 witness: the same descriptor was removed twice in a row, found the
\* first time and absent the second, with other entries in the table.
C13_Witness ==
    /\ last.kind = "erase"
    /\ last.again
    /\ ~last.present
    /\ connections # <<>>
    /\ connections = last.table

\* C14: an iteration whose wait was interrupted accepts nothing, adds
\* nothing to and removes nothing from the connection table, reads from no
\* descriptor and closes none, takes nothing off the listen queue, leaves
\* the sum of the deltas as it was, and ends at the next wait.
C14_InterruptedIterationIsNoop ==
    [][ last'.interrupted =>
          /\ connections' = connections
          /\ kernel'.open = kernel.open
          /\ kernel'.interest = kernel.interest
          /\ sock' = sock
          /\ backlog' = backlog
          /\ applied' = applied
          /\ pc' = "wait" ]_vars

C16_ReadableHangupRemovesSameIteration ==
    ( /\ last.kind = "conn"
      /\ EPOLLIN \in new_event.events
      /\ new_event.events \cap {EPOLLHUP, EPOLLRDHUP} # {} ) =>
        /\ Len(last.lines) >= Len(SplitLines(last.read).lines)
        /\ last.fd \notin Range(connections)
        /\ last.fd \notin kernel.open
        /\ pc = "wait"

\* C17: at the top of the loop the descriptors registered with the epoll
\* instance are the listener's (for EPOLLIN) and those held by the
\* connection table (each for EPOLLIN and EPOLLRDHUP), all of them open,
\* and every event the wait can return is for one of these.
C17_RegisteredIsListenerPlusTable ==
    pc = "wait" =>
        /\ { f \in Fds : kernel.interest[f] # {} } =
               {listen_socket} \cup Range(connections)
        /\ kernel.interest[listen_socket] = {EPOLLIN}
        /\ \A c \in Range(connections) :
               kernel.interest[c] = {EPOLLIN, EPOLLRDHUP}
        /\ {listen_socket} \cup Range(connections) \subseteq kernel.open
        /\ \A e \in ReadyEvents :
               e.fd \in {listen_socket} \cup Range(connections)

\* C17 witness: one connection was removed on its hang-up and is no longer
\* registered, while a connection that stays in the table has an event
\* ready.
C17_Witness ==
    /\ pc = "wait"
    /\ last.kind = "conn"
    /\ last.hangup
    /\ kernel.interest[last.fd] = {}
    /\ \E e \in ReadyEvents : e.fd \in Range(connections)

====
